---- MODULE Spec2Model ----
(***************************************************************************)
(* State-machine model of src/bot.py: the python-telegram-bot application  *)
(* built in main(), the TelegramBot command handlers and the three vendor   *)
(* adapters (get_ai_response, get_crypto_price, get_latest_news).           *)
(*                                                                          *)
(* One inbound update is handled at a time (the Application is built        *)
(* without concurrent_updates).  An update is a new message, so             *)
(* update.message and update.effective_user are present.  The transport     *)
(* accepts every send: reply_text and reply_chat_action do not raise.       *)
(* A vendor HTTP call suspends the handler (pc = "await") until the         *)
(* environment picks the outcome: a network exception or an HTTP response.  *)
(*                                                                          *)
(* Strings are modelled by what the code does with them: words are          *)
(* sequences of one-character strings, the chat completion is a sequence    *)
(* of character codes, and formatted replies are records of their           *)
(* formatted fields.                                                        *)
(***************************************************************************)
EXTENDS Integers, Sequences, FiniteSets, TLC

\* ------------------------------------------------------------------ bounds
\* wall-clock minutes the model lets pass
MaxClock == 1
\* the completion lengths tried go up to two full messages plus MaxOver
MaxOver == 1

\* --------------------------------------------------------------- constants
\* Telegram's single-message size used by ask_command
MAX_MESSAGE_LENGTH == 4096
\* articles[:3]
MAX_ARTICLES == 3
\* HTTP status compared in every adapter
HTTP_OK == 200
\* a non-success status of the vendor
HTTP_ERROR == 500
\* len() of the string returned by get_ai_response without a key
AI_NEEDS_CONFIG_LEN == 83

VARIABLES
    env,           \* TOGETHER_API_KEY, NEWS_API_KEY, IMAGE_API_KEY: set or not
    pc,            \* "idle", "dispatch", "await", "send", "done"
    update,        \* the inbound update being handled
    outbox,        \* replies sent to the user for this update, in order
    chat_actions,  \* presence indicators sent for this update
    requests,      \* vendor HTTP requests issued for this update
    resp,          \* the vendor's outcome for this update
    response,      \* ask_command's local `response`
    i,             \* ask_command's loop index
    raised,        \* an exception was raised inside a vendor adapter
    unhandled,     \* an exception left the handler (error_handler logged it)
    clock,         \* wall clock, minutes
    stamp,         \* what datetime.now() returned for this update, -1 if not read
    prev           \* the previous completed handling

vars == <<env, pc, update, outbox, chat_actions, requests, resp, response, i,
          raised, unhandled, clock, stamp, prev>>

\* ------------------------------------------------------------ str helpers
Min(a, b) == IF a < b THEN a ELSE b

UPPERCASE == <<"B", "T", "C", "H", "I">>
LOWERCASE == <<"b", "t", "c", "h", "i">>

\* str.lower() on one character
LowerChar(c) ==
    IF \E k \in 1..Len(UPPERCASE) : UPPERCASE[k] = c
    THEN LOWERCASE[CHOOSE k \in 1..Len(UPPERCASE) : UPPERCASE[k] = c]
    ELSE c

\* str.upper() on one character
UpperChar(c) ==
    IF \E k \in 1..Len(LOWERCASE) : LOWERCASE[k] = c
    THEN UPPERCASE[CHOOSE k \in 1..Len(LOWERCASE) : LOWERCASE[k] = c]
    ELSE c

Lower(s) == [k \in 1..Len(s) |-> LowerChar(s[k])]
Upper(s) == [k \in 1..Len(s) |-> UpperChar(s[k])]

\* `sub in s` on strings
Contains(sub, s) ==
    \E k \in 0..(Len(s) - Len(sub)) : SubSeq(s, k + 1, k + Len(sub)) = sub

\* " ".join(args)
RECURSIVE Join(_)
Join(args) ==
    IF args = <<>> THEN <<>>
    ELSE IF Len(args) = 1 THEN args[1]
    ELSE args[1] \o <<" ">> \o Join(Tail(args))

\* Slice with the end index taken as inclusive
SliceInclusive(s, a, b) == SubSeq(s, a + 1, Min(b + 1, Len(s)))

\* s[a:b] on a python string, 0-based, end exclusive, clipped to len(s)
Slice(s, a, b) == SubSeq(s, a + 1, Min(b, Len(s)))

\* ---------------------------------------------------------------- values
None == [id |-> "None"]
NoResp == [kind |-> "none"]

\* the strings the handlers send
Canned(name) == [id |-> name]

\* "AI chat needs configuration ... TOGETHER_API_KEY!"
AI_NEEDS_CONFIG ==
    [id |-> "AI_NEEDS_CONFIG", chars |-> [k \in 1..AI_NEEDS_CONFIG_LEN |-> 0]]
\* "News service needs configuration ... NEWS_API_KEY!"
NEWS_NEEDS_CONFIG == Canned("NEWS_NEEDS_CONFIG")
\* "No fresh news available right now!"
NO_FRESH_NEWS_AVAILABLE == Canned("NO_FRESH_NEWS_AVAILABLE")
\* "No fresh news right now. Check back soon!"
NO_FRESH_NEWS_CHECK_BACK == Canned("NO_FRESH_NEWS_CHECK_BACK")
ASK_USAGE == Canned("ASK_USAGE")
PRICE_USAGE == Canned("PRICE_USAGE")
IMAGE_USAGE == Canned("IMAGE_USAGE")
AI_APOLOGY == Canned("AI_BRAIN_BREAK")
PRICE_APOLOGY == Canned("PRICE_SERVERS_BUSY")
NEWS_APOLOGY == Canned("NEWS_SERVERS_UPDATING")
IMAGE_OFFLINE == Canned("IMAGE_GENERATION_OFFLINE")
CONTACT_INFO == Canned("CONTACT_INFO")
GREETING == Canned("GREETING")
NOT_SURE == Canned("NOT_SURE")
\* f"Couldn't find price data for '{symbol}'. ..."
PriceNotFound(symbol) == [id |-> "PRICE_NOT_FOUND", symbol |-> symbol]
\* the welcome text of /start
Welcome(first_name) == [id |-> "WELCOME", first_name |-> first_name]
\* f"Image generation requested: {prompt}\nNote: ... requires Stability.ai API key configuration."
ImageRequested(prompt) == [id |-> "IMAGE_REQUESTED_NEEDS_KEY", prompt |-> prompt]

\* update.message.reply_text(text, ...)
ReplyText(text, parse_mode) ==
    [method |-> "reply_text", text |-> text, parse_mode |-> parse_mode]

\* ---------------------------------------------------------------- inputs
Users == {"Ada", "Bob"}

W_why == <<"w", "h", "y">>
W_cat == <<"c", "a", "t">>
W_BTC == <<"B", "T", "C">>
W_btc == <<"b", "t", "c">>

CommandArgs(name) ==
    CASE name = "ask" -> {<<>>, <<W_why, W_cat>>}
      [] name = "price" -> {<<>>, <<W_BTC>>, <<W_btc, W_cat>>}
      [] name = "image" -> {<<>>, <<W_cat>>}
      [] OTHER -> {<<>>}

CommandNames == {"start", "help", "ask", "price", "news", "image", "contact"}

Texts == {<<"H", "i">>, <<"t", "h", "i", "s">>, <<"o", "k">>}

\* update.effective_user.first_name matters to /start only
UsersOf(name) == IF name = "start" THEN Users ELSE {"Ada"}

\* a command message "/name args..." or a free-text message (name = "")
Updates ==
    {[name |-> n, args |-> a, text |-> <<>>, first_name |-> u] :
        <<n, a, u>> \in UNION {{<<m, b, v>> : b \in CommandArgs(m), v \in UsersOf(m)} :
                               m \in CommandNames}}
    \cup {[name |-> "", args |-> <<>>, text |-> t, first_name |-> "Ada"] :
        t \in Texts}

\* ------------------------------------------------------- vendor responses
\* aiohttp raised (connection error, timeout) inside session.post/get
NetworkError == [kind |-> "exception"]
Http(status, body) == [kind |-> "http", status |-> status, body |-> body]
ErrorBody == [error |-> "vendor error"]

\* a completion of length L; character k has code k
Completion(L) == [k \in 1..L |-> k]

CompletionLens ==
    {0, 1, MAX_MESSAGE_LENGTH, MAX_MESSAGE_LENGTH + 1, 5000}
    \cup {2 * MAX_MESSAGE_LENGTH + d : d \in 0..MaxOver}

ChatBody(chars) == [choices |-> <<[message |-> [content |-> chars]]>>]

ChatResponses ==
    {NetworkError, Http(HTTP_ERROR, ErrorBody), Http(HTTP_OK, ErrorBody),
     Http(HTTP_OK, [choices |-> <<>>])}
    \cup {Http(HTTP_OK, ChatBody(Completion(L))) : L \in CompletionLens}

\* coin data: usd in cents, usd_24h_change in hundredths of a percent,
\* usd_market_cap in dollars
Coins ==
    {[usd |-> 6543210, usd_24h_change |-> 275, usd_market_cap |-> 1234567],
     [usd |-> 99, usd_24h_change |-> -150, usd_market_cap |-> 1000],
     [usd |-> 100, usd_market_cap |-> 999],
     [usd_24h_change |-> 10, usd_market_cap |-> 5],
     [usd |-> 100, usd_24h_change |-> 10]}

PriceResponses(symbol) ==
    {NetworkError, Http(HTTP_ERROR, ErrorBody), Http(HTTP_OK, <<>>),
     Http(HTTP_OK, [s \in {W_cat} |-> CHOOSE c \in Coins : DOMAIN c = {"usd", "usd_market_cap"}])}
    \cup {Http(HTTP_OK, [s \in {symbol} |-> c]) : c \in Coins}

A_full == [title |-> "t1", source |-> [name |-> "wire"], url |-> "u1"]
A_nourl == [title |-> "t2", source |-> [name |-> "desk"]]
A_bare == [url |-> "u3"]
A_nullsource == [title |-> "t4", source |-> [null |-> TRUE], url |-> "u4"]

NewsResponses ==
    {NetworkError, Http(HTTP_ERROR, ErrorBody), Http(HTTP_OK, ErrorBody),
     Http(HTTP_OK, [articles |-> <<>>]),
     Http(HTTP_OK, [articles |-> <<A_full>>]),
     Http(HTTP_OK, [articles |-> <<A_nourl, A_bare, A_full, A_full>>]),
     Http(HTTP_OK, [articles |-> <<A_full, A_nullsource>>])}

\* ------------------------------------------------------------ formatting
Abs(n) == IF n < 0 THEN -n ELSE n

\* thousands groups of a non-negative integer, most significant first
RECURSIVE Groups(_)
Groups(n) == IF n < 1000 THEN <<n>> ELSE Groups(n \div 1000) \o <<n % 1000>>

\* f"{x:,.2f}" for x given in hundredths
Fmt_comma_2f(h) == [int |-> Groups(h \div 100), frac |-> h % 100]
\* f"{x:.2f}" for x given in hundredths
Fmt_2f(h) == [neg |-> h < 0, int |-> Abs(h) \div 100, frac |-> Abs(h) % 100]
\* f"{x:,.0f}" for an integer x
Fmt_comma_0f(n) == Groups(n)

\* datetime.now().strftime("%H:%M UTC")
StrfTime(now) == <<(now \div 60) % 24, now % 60>>

Returned(v) == [raised |-> FALSE, value |-> v]
Raised == [raised |-> TRUE, value |-> None]

\* dict.get(key, default)
Get(d, key, default) == IF key \in DOMAIN d THEN d[key] ELSE default

\* the f-string returned by get_crypto_price
FormatPrice(symbol, coin_data, now) ==
    LET change_24h == Get(coin_data, "usd_24h_change", 0)
    IN  [id |-> "price",
         symbol |-> Upper(symbol),
         price |-> Fmt_comma_2f(coin_data["usd"]),
         change_emoji |-> IF change_24h > 0 THEN "up"
                          ELSE IF change_24h < 0 THEN "down" ELSE "flat",
         change_color |-> IF change_24h > 0 THEN "+" ELSE "",
         change |-> Fmt_2f(change_24h),
         market_cap |-> Fmt_comma_0f(coin_data["usd_market_cap"]),
         updated |-> StrfTime(now)]

\* get_crypto_price indexing data[symbol] without the membership test
get_crypto_price_keyerror(symbol, r, now) ==
    IF r.kind = "exception" THEN Raised
    ELSE IF r.status = HTTP_OK
    THEN LET data == r.body
         IN  IF symbol \in DOMAIN data
             THEN LET coin_data == data[symbol]
                  IN  IF "usd" \notin DOMAIN coin_data
                         \/ "usd_market_cap" \notin DOMAIN coin_data
                      THEN Raised
                      ELSE Returned(FormatPrice(symbol, coin_data, now))
             ELSE Raised
    ELSE Returned(None)

\* get_crypto_price after session.get returned or raised
get_crypto_price(symbol, r, now) ==
    IF r.kind = "exception" THEN Raised
    ELSE IF r.status = HTTP_OK
    THEN LET data == r.body
         IN  IF symbol \in DOMAIN data
             THEN LET coin_data == data[symbol]
                  IN  \* "N/A" cannot be formatted with ",.2f" / ",.0f": ValueError
                      IF "usd" \notin DOMAIN coin_data
                         \/ "usd_market_cap" \notin DOMAIN coin_data
                      THEN Raised
                      ELSE Returned(FormatPrice(symbol, coin_data, now))
             ELSE Returned(None)
    ELSE Returned(None)

\* one article's lines of news_text
FormatArticle(n, article) ==
    [n |-> n,
     title |-> Get(article, "title", "No title"),
     source |-> Get(Get(article, "source", <<>>), "name", "Unknown"),
     url |-> Get(article, "url", "")]

\* FormatNews with an "Updated" line like the price reply's
FormatNewsDated(articles) ==
    [id |-> "news",
     items |-> [n \in 1..Min(Len(articles), MAX_ARTICLES) |->
                    FormatArticle(n, articles[n])],
     updated |-> StrfTime(clock)]

\* the news_text built by get_latest_news
FormatNews(articles) ==
    [id |-> "news",
     items |-> [n \in 1..Min(Len(articles), MAX_ARTICLES) |->
                    FormatArticle(n, articles[n])]]

\* get_latest_news after session.get returned or raised
get_latest_news(r) ==
    IF r.kind = "exception" THEN Raised
    ELSE IF r.status = HTTP_OK
    THEN LET articles == Get(r.body, "articles", <<>>)
         IN  IF articles = <<>> THEN Returned(NO_FRESH_NEWS_AVAILABLE)
             \* None.get(...) on a null source: AttributeError
             ELSE IF \E n \in 1..Min(Len(articles), MAX_ARTICLES) :
                        "null" \in DOMAIN Get(articles[n], "source", <<>>)
             THEN Raised
             ELSE Returned(FormatNews(articles))
    ELSE Returned(None)

\* get_ai_response after session.post returned or raised
get_ai_response(r) ==
    IF r.kind = "exception" THEN Raised
    ELSE IF r.status = HTTP_OK
    THEN LET data == r.body
         IN  \* data["choices"][0]["message"]["content"]: KeyError / IndexError
             IF "choices" \in DOMAIN data /\ Len(data.choices) > 0
             THEN Returned([id |-> "str", chars |-> data.choices[1].message.content])
             ELSE Raised
    \* raise Exception(f"API returned status {response.status}")
    ELSE Raised

\* truthiness of an Optional[str] that is never the empty string
Truthy(v) == v # None

\* ---------------------------------------------------------------- state
NoUpdate == [name |-> "none", args |-> <<>>, text |-> <<>>, first_name |-> ""]
NoPrev == [update |-> NoUpdate, resp |-> NoResp, stamp |-> -1, outbox |-> <<>>]

Init ==
    /\ env \in [{"TOGETHER_API_KEY", "NEWS_API_KEY", "IMAGE_API_KEY"} -> BOOLEAN]
    /\ pc = "idle"
    /\ update = NoUpdate
    /\ outbox = <<>>
    /\ chat_actions = <<>>
    /\ requests = <<>>
    /\ resp = NoResp
    /\ response = None
    /\ i = 0
    /\ raised = FALSE
    /\ unhandled = FALSE
    /\ clock = 0
    /\ stamp = -1
    /\ prev = NoPrev

\* the handlers main() registers, in order; a command without a
\* CommandHandler matches nothing, as the MessageHandler excludes commands
HandlerFor(u) ==
    IF u.name = "" THEN "handle_message"
    ELSE IF u.name \in {"start", "ask", "price", "news", "image", "contact"}
    THEN u.name
    ELSE "none"

\* TRY_BLOCKS with price_command's adapter call outside its try
TRY_BLOCKS_price_unguarded == {"ask", "news"}

\* the handlers whose vendor call sits inside try/except Exception
TRY_BLOCKS == {"ask", "price", "news"}

ChatRequest(question) ==
    [method |-> "POST", url |-> "TOGETHER_API_URL", arg |-> question]
PriceRequest(symbol) ==
    [method |-> "GET", url |-> "COINGECKO_API_URL/simple/price", arg |-> symbol]
NewsRequest ==
    [method |-> "GET", url |-> "NEWS_API_URL", arg |-> <<>>]

Reply(text) == outbox' = Append(outbox, ReplyText(text, ""))
ReplyMode(text, parse_mode) == outbox' = Append(outbox, ReplyText(text, parse_mode))
ChatAction(a) == chat_actions' = Append(chat_actions, a)

\* an exception raised by the adapter inside handler h: the except branch
\* replies with the apology, otherwise the Application hands the exception
\* to error_handler, which only logs
Except(h, apology) ==
    /\ raised' = TRUE
    /\ IF h \in TRY_BLOCKS
       THEN Reply(apology) /\ UNCHANGED unhandled
       ELSE unhandled' = TRUE /\ UNCHANGED outbox

\* ---------------------------------------------------------------- actions
\* the Application receives the next update
Receive ==
    /\ pc = "idle"
    /\ \E u \in Updates : update' = u
    /\ pc' = "dispatch"
    /\ UNCHANGED <<env, outbox, chat_actions, requests, resp, response, i,
                   raised, unhandled, clock, stamp, prev>>

\* no registered handler matches: the update is dropped
NoHandler ==
    /\ pc = "dispatch"
    /\ HandlerFor(update) = "none"
    /\ pc' = "done"
    /\ UNCHANGED <<env, update, outbox, chat_actions, requests, resp, response,
                   i, raised, unhandled, clock, stamp, prev>>

start_command ==
    /\ pc = "dispatch"
    /\ HandlerFor(update) = "start"
    /\ Reply(Welcome(update.first_name))
    /\ pc' = "done"
    /\ UNCHANGED <<env, update, chat_actions, requests, resp, response, i,
                   raised, unhandled, clock, stamp, prev>>

contact_command ==
    /\ pc = "dispatch"
    /\ HandlerFor(update) = "contact"
    /\ ReplyMode(CONTACT_INFO, "Markdown")
    /\ pc' = "done"
    /\ UNCHANGED <<env, update, chat_actions, requests, resp, response, i,
                   raised, unhandled, clock, stamp, prev>>

KEYWORDS == {<<"h", "i">>, <<"h", "e", "l", "l", "o">>, <<"h", "e", "y">>,
             <<"s", "t", "a", "r", "t">>}

handle_message ==
    /\ pc = "dispatch"
    /\ HandlerFor(update) = "handle_message"
    /\ LET message_text == Lower(update.text)
       IN  IF \E keyword \in KEYWORDS : Contains(keyword, message_text)
           THEN Reply(GREETING)
           ELSE Reply(NOT_SURE)
    /\ pc' = "done"
    /\ UNCHANGED <<env, update, chat_actions, requests, resp, response, i,
                   raised, unhandled, clock, stamp, prev>>

\* ask_command up to the suspension in session.post, or to the end when
\* there is no argument; without a key get_ai_response returns at once
ask_command ==
    /\ pc = "dispatch"
    /\ HandlerFor(update) = "ask"
    /\ IF update.args = <<>>
       THEN /\ Reply(ASK_USAGE)
            /\ pc' = "done"
            /\ UNCHANGED <<chat_actions, requests, response>>
       ELSE /\ ChatAction("typing")
            /\ IF ~env["TOGETHER_API_KEY"]
               THEN /\ response' = AI_NEEDS_CONFIG
                    /\ pc' = "send"
                    /\ UNCHANGED requests
               ELSE /\ requests' = Append(requests, ChatRequest(Join(update.args)))
                    /\ pc' = "await"
                    /\ UNCHANGED response
            /\ UNCHANGED outbox
    /\ UNCHANGED <<env, update, resp, i, raised, unhandled, clock, stamp, prev>>

\* ask_resume retrying the request once after a failure
ask_resume_retry ==
    /\ pc = "await"
    /\ HandlerFor(update) = "ask"
    /\ \E r \in ChatResponses :
        /\ resp' = r
        /\ LET res == get_ai_response(r)
           IN  IF res.raised
               THEN IF Len(requests) < 2
                    THEN /\ requests' = Append(requests, requests[1])
                         /\ pc' = "await"
                         /\ UNCHANGED <<response, outbox, raised, unhandled>>
                    ELSE /\ Except("ask", AI_APOLOGY)
                         /\ pc' = "done"
                         /\ UNCHANGED <<response, requests>>
               ELSE /\ response' = res.value
                    /\ pc' = "send"
                    /\ UNCHANGED <<outbox, raised, unhandled, requests>>
    /\ UNCHANGED <<env, update, chat_actions, i, clock, stamp, prev>>

\* session.post completes: get_ai_response returns or raises
ask_resume ==
    /\ pc = "await"
    /\ HandlerFor(update) = "ask"
    /\ \E r \in ChatResponses :
        /\ resp' = r
        /\ LET res == get_ai_response(r)
           IN  IF res.raised
               THEN /\ Except("ask", AI_APOLOGY)
                    /\ pc' = "done"
                    /\ UNCHANGED response
               ELSE /\ response' = res.value
                    /\ pc' = "send"
                    /\ UNCHANGED <<outbox, raised, unhandled>>
    /\ UNCHANGED <<env, update, chat_actions, requests, i, clock, stamp, prev>>

\* the next reply_text of ask_command: the whole response, or the next
\* slice of the loop `for i in range(0, len(response), 4096)`
ask_send ==
    /\ pc = "send"
    /\ IF Len(response.chars) > MAX_MESSAGE_LENGTH
       THEN /\ Reply([response EXCEPT
                        !.chars = Slice(response.chars, i, i + MAX_MESSAGE_LENGTH)])
            /\ i' = i + MAX_MESSAGE_LENGTH
            /\ pc' = IF i + MAX_MESSAGE_LENGTH < Len(response.chars)
                     THEN "send" ELSE "done"
       ELSE /\ Reply(response)
            /\ pc' = "done"
            /\ UNCHANGED i
    /\ UNCHANGED <<env, update, chat_actions, requests, resp, response, raised,
                   unhandled, clock, stamp, prev>>

\* price_command sending the typing indicator before the argument check
price_command_typing_first ==
    /\ pc = "dispatch"
    /\ HandlerFor(update) = "price"
    /\ ChatAction("typing")
    /\ IF update.args = <<>>
       THEN /\ Reply(PRICE_USAGE)
            /\ pc' = "done"
            /\ UNCHANGED requests
       ELSE /\ requests' = Append(requests, PriceRequest(Lower(update.args[1])))
            /\ pc' = "await"
            /\ UNCHANGED outbox
    /\ UNCHANGED <<env, update, resp, response, i, raised, unhandled, clock,
                   stamp, prev>>

\* price_command up to the suspension in session.get
price_command ==
    /\ pc = "dispatch"
    /\ HandlerFor(update) = "price"
    /\ IF update.args = <<>>
       THEN /\ Reply(PRICE_USAGE)
            /\ pc' = "done"
            /\ UNCHANGED <<chat_actions, requests>>
       ELSE /\ ChatAction("typing")
            /\ requests' = Append(requests, PriceRequest(Lower(update.args[1])))
            /\ pc' = "await"
            /\ UNCHANGED outbox
    /\ UNCHANGED <<env, update, resp, response, i, raised, unhandled, clock,
                   stamp, prev>>

\* session.get completes: get_crypto_price returns or raises
price_resume ==
    /\ pc = "await"
    /\ HandlerFor(update) = "price"
    /\ LET symbol == Lower(update.args[1])
       IN  \E r \in PriceResponses(symbol) :
             /\ resp' = r
             /\ LET price_data == get_crypto_price(symbol, r, clock)
                IN  /\ IF price_data.raised
                       THEN Except("price", PRICE_APOLOGY)
                       ELSE /\ IF Truthy(price_data.value)
                               THEN Reply(price_data.value)
                               ELSE Reply(PriceNotFound(symbol))
                            /\ UNCHANGED <<raised, unhandled>>
                    /\ stamp' = IF ~price_data.raised /\ Truthy(price_data.value)
                                THEN clock ELSE stamp
    /\ pc' = "done"
    /\ UNCHANGED <<env, update, chat_actions, requests, response, i, clock, prev>>

\* news_command calling the vendor without looking at NEWS_API_KEY
news_command_no_key_check ==
    /\ pc = "dispatch"
    /\ HandlerFor(update) = "news"
    /\ ChatAction("typing")
    /\ requests' = Append(requests, NewsRequest)
    /\ pc' = "await"
    /\ UNCHANGED <<env, update, outbox, resp, response, i, raised, unhandled,
                   clock, stamp, prev>>

\* news_command up to the suspension in session.get; without a key
\* get_latest_news returns at once
news_command ==
    /\ pc = "dispatch"
    /\ HandlerFor(update) = "news"
    /\ ChatAction("typing")
    /\ IF ~env["NEWS_API_KEY"]
       THEN /\ ReplyMode(NEWS_NEEDS_CONFIG, "HTML")
            /\ pc' = "done"
            /\ UNCHANGED requests
       ELSE /\ requests' = Append(requests, NewsRequest)
            /\ pc' = "await"
            /\ UNCHANGED outbox
    /\ UNCHANGED <<env, update, resp, response, i, raised, unhandled, clock,
                   stamp, prev>>

\* session.get completes: get_latest_news returns or raises
news_resume ==
    /\ pc = "await"
    /\ HandlerFor(update) = "news"
    /\ \E r \in NewsResponses :
        /\ resp' = r
        /\ LET news_data == get_latest_news(r)
           IN  IF news_data.raised
               THEN Except("news", NEWS_APOLOGY)
               ELSE /\ IF Truthy(news_data.value)
                       THEN ReplyMode(news_data.value, "HTML")
                       ELSE Reply(NO_FRESH_NEWS_CHECK_BACK)
                    /\ UNCHANGED <<raised, unhandled>>
    /\ pc' = "done"
    /\ UNCHANGED <<env, update, chat_actions, requests, response, i, clock,
                   stamp, prev>>

\* image_command: no adapter is called; the except branch guards only the
\* reply itself
image_command ==
    /\ pc = "dispatch"
    /\ HandlerFor(update) = "image"
    /\ IF update.args = <<>>
       THEN /\ Reply(IMAGE_USAGE)
            /\ UNCHANGED chat_actions
       ELSE /\ ChatAction("upload_photo")
            /\ Reply(ImageRequested(Join(update.args)))
    /\ pc' = "done"
    /\ UNCHANGED <<env, update, requests, resp, response, i, raised, unhandled,
                   clock, stamp, prev>>

\* the handler coroutine has returned; the Application takes the next update
Complete ==
    /\ pc = "done"
    /\ prev' = [update |-> update, resp |-> resp, stamp |-> stamp, outbox |-> outbox]
    /\ pc' = "idle"
    /\ update' = NoUpdate
    /\ outbox' = <<>>
    /\ chat_actions' = <<>>
    /\ requests' = <<>>
    /\ resp' = NoResp
    /\ response' = None
    /\ i' = 0
    /\ raised' = FALSE
    /\ unhandled' = FALSE
    /\ stamp' = -1
    /\ UNCHANGED <<env, clock>>

\* a minute passes
Tick ==
    /\ clock < MaxClock
    /\ clock' = clock + 1
    /\ UNCHANGED <<env, pc, update, outbox, chat_actions, requests, resp,
                   response, i, raised, unhandled, stamp, prev>>

Next ==
    \/ Receive
    \/ NoHandler
    \/ start_command
    \/ contact_command
    \/ handle_message
    \/ ask_command
    \/ ask_resume
    \/ ask_send
    \/ price_command
    \/ price_resume
    \/ news_command
    \/ news_resume
    \/ image_command
    \/ Complete
    \/ Tick

Spec == Init /\ [][Next]_vars

\* ----------------------------------------------------------------- claims
Texts_of(box) == [k \in 1..Len(box) |-> box[k].text]

HasArgs == update.args # <<>>

\* C1: every handled command or free-text message has, when its handling
\* completes, been answered by at least one reply; none is handled in silence.
C1_NeverSilent == pc = "done" => Len(outbox) >= 1

UsageOf(name) ==
    CASE name = "ask" -> ASK_USAGE
      [] name = "price" -> PRICE_USAGE
      [] name = "image" -> IMAGE_USAGE

\* C2: ask, price or image received without an argument: the usage hint is
\* the only reply, no vendor request is issued and no presence indicator is
\* sent, at any point of the handling.
C2_UsageHintOnly ==
    (update.name \in {"ask", "price", "image"} /\ ~HasArgs) =>
        /\ requests = <<>>
        /\ chat_actions = <<>>
        /\ pc \in {"dispatch", "done"}
        /\ (pc = "dispatch" => outbox = <<>>)
        /\ (pc = "done" => outbox = <<ReplyText(UsageOf(update.name), "")>>)

C2_Witness ==
    /\ pc = "done"
    /\ update.name = "price"
    /\ ~HasArgs
    /\ outbox = <<ReplyText(PRICE_USAGE, "")>>

\* C3: at most one vendor request is issued for one inbound command, also
\* after a vendor failure, and start, contact and free text issue none.
C3_AtMostOneRequest ==
    /\ Len(requests) <= 1
    /\ (update.name \in {"start", "contact", ""} => requests = <<>>)

C3_Witness ==
    /\ pc = "done"
    /\ update.name = "ask"
    /\ raised
    /\ resp = NetworkError
    /\ Len(requests) = 1

\* C4: ask with a question and no chat key, and news with no news key: the
\* only reply is the fixed configuration-needed message of that capability
\* and no vendor request is issued.
C4_ConfigurationMissing ==
    /\ (update.name = "ask" /\ HasArgs /\ ~env["TOGETHER_API_KEY"]) =>
          /\ requests = <<>>
          /\ pc # "await"
          /\ (pc \in {"dispatch", "send"} => outbox = <<>>)
          /\ (pc = "done" => outbox = <<ReplyText(AI_NEEDS_CONFIG, "")>>)
    /\ (update.name = "news" /\ ~env["NEWS_API_KEY"]) =>
          /\ requests = <<>>
          /\ pc # "await"
          /\ (pc = "dispatch" => outbox = <<>>)
          /\ (pc = "done" => outbox = <<ReplyText(NEWS_NEEDS_CONFIG, "HTML")>>)

C4_Witness ==
    /\ pc = "done"
    /\ update.name = "ask"
    /\ HasArgs
    /\ ~env["TOGETHER_API_KEY"]
    /\ outbox = <<ReplyText(AI_NEEDS_CONFIG, "")>>

RECURSIVE Concat(_)
Concat(box) ==
    IF box = <<>> THEN <<>> ELSE box[1].text.chars \o Concat(Tail(box))

CeilDiv(a, b) == (a + b - 1) \div b

\* the vendor answered ask with a completion
AskCompleted ==
    /\ update.name = "ask"
    /\ resp.kind = "http"
    /\ resp.status = HTTP_OK
    /\ "choices" \in DOMAIN resp.body
    /\ resp.body.choices # <<>>

\* C5: ask with a key and a completion of length L: the replies sent so far
\* are consecutive pieces of the completion in order; when the handler
\* returns, one reply carries the whole text if L <= 4096, and otherwise
\* ceil(L/4096) replies were sent, all of length 4096 but the last, which is
\* not longer, and together they are the completion (lengths 4096 and 904
\* for L = 5000).
C5_Chunks ==
    AskCompleted =>
        LET content == resp.body.choices[1].message.content
            L == Len(content)
            n == Len(outbox)
        IN  /\ Concat(outbox) = SubSeq(content, 1, Len(Concat(outbox)))
            /\ \A k \in 1..n :
                 /\ outbox[k].method = "reply_text"
                 /\ Len(outbox[k].text.chars) <= MAX_MESSAGE_LENGTH
                 /\ (k < n => Len(outbox[k].text.chars) = MAX_MESSAGE_LENGTH)
            /\ (pc = "done" =>
                  /\ Concat(outbox) = content
                  /\ n = IF L <= MAX_MESSAGE_LENGTH THEN 1
                         ELSE CeilDiv(L, MAX_MESSAGE_LENGTH)
                  /\ (L = 5000 =>
                        /\ Len(outbox[1].text.chars) = 4096
                        /\ Len(outbox[2].text.chars) = 904))

C5_Witness ==
    /\ pc = "done"
    /\ AskCompleted
    /\ Len(resp.body.choices[1].message.content) = 5000
    /\ Len(outbox) = 2

NonSuccess == resp.kind = "http" /\ resp.status # HTTP_OK

\* C6: for price and news a non-success HTTP status is answered by the
\* apology, and the data-miss replies ("not found", "no fresh news") are
\* sent only after a success status.
C6_NonSuccessIsApology ==
    /\ (pc = "done" /\ NonSuccess) =>
          /\ update.name = "price" => Texts_of(outbox) = <<PRICE_APOLOGY>>
          /\ update.name = "news" => Texts_of(outbox) = <<NEWS_APOLOGY>>
    /\ \A k \in 1..Len(outbox) :
          /\ outbox[k].text.id = "PRICE_NOT_FOUND" =>
                resp.kind = "http" /\ resp.status = HTTP_OK
          /\ outbox[k].text \in {NO_FRESH_NEWS_AVAILABLE, NO_FRESH_NEWS_CHECK_BACK} =>
                resp.kind = "http" /\ resp.status = HTTP_OK

\* the configuration-needed message of the image capability
IMAGE_NEEDS_CONFIG == Canned("IMAGE_NEEDS_CONFIG")

\* C7: image with a description: without the image key the reply is the
\* fixed configuration-needed message and no vendor request is issued; with
\* the key exactly one image request is issued and the reply is the image
\* (or the "offline" message when the call fails).
C7_ImageGeneration ==
    (pc = "done" /\ update.name = "image" /\ HasArgs) =>
        IF ~env["IMAGE_API_KEY"]
        THEN /\ requests = <<>>
             /\ Texts_of(outbox) = <<IMAGE_NEEDS_CONFIG>>
        ELSE /\ Len(requests) = 1
             /\ Len(outbox) = 1
             /\ \/ outbox[1].method = "reply_photo"
                \/ outbox[1].text = IMAGE_OFFLINE

ApologyOf(name) ==
    CASE name = "ask" -> AI_APOLOGY
      [] name = "price" -> PRICE_APOLOGY
      [] name = "news" -> NEWS_APOLOGY

\* C8: a failure raised by the vendor call of ask, price or news is caught in
\* the handler and answered by exactly one reply, the apology; it never
\* reaches the top-level error handler.
C8_FailuresCaught ==
    update.name \in {"ask", "price", "news"} =>
        /\ ~unhandled
        /\ raised =>
             /\ pc = "done"
             /\ outbox = <<ReplyText(ApologyOf(update.name), "")>>

C8_Witness ==
    /\ pc = "done"
    /\ update.name = "price"
    /\ raised
    /\ resp.kind = "http"
    /\ resp.status = HTTP_OK
    /\ outbox = <<ReplyText(PRICE_APOLOGY, "")>>

\* the vendor answered price with success and without the requested symbol
PriceMiss ==
    /\ update.name = "price"
    /\ resp.kind = "http"
    /\ resp.status = HTTP_OK
    /\ Lower(update.args[1]) \notin DOMAIN resp.body

\* the vendor answered news with success and no article
NewsMiss ==
    /\ update.name = "news"
    /\ resp.kind = "http"
    /\ resp.status = HTTP_OK
    /\ Get(resp.body, "articles", <<>>) = <<>>

\* C9: a data miss is answered by exactly one reply, the data-miss message
\* ("not found" naming the lower-cased symbol, "no fresh news"), never by an
\* apology, an empty reply or a failure.
C9_DataMiss ==
    /\ (pc = "done" /\ PriceMiss) =>
          /\ outbox = <<ReplyText(PriceNotFound(Lower(update.args[1])), "")>>
          /\ ~raised /\ ~unhandled
    /\ (pc = "done" /\ NewsMiss) =>
          /\ outbox = <<ReplyText(NO_FRESH_NEWS_AVAILABLE, "HTML")>>
          /\ ~raised /\ ~unhandled

C9_Witness ==
    /\ pc = "done"
    /\ PriceMiss
    /\ update.args[1] = W_BTC
    /\ outbox = <<ReplyText(PriceNotFound(W_btc), "")>>

\* this handling repeats the previous one: same command, same vendor outcome
Repeated == pc = "done" /\ prev.update = update /\ prev.resp = resp

\* C10 as stated: a repeated handling sends the same replies as the first,
\* whenever it happens.
C10_Idempotent == Repeated => prev.outbox = outbox

\* a reply without the "Updated" time of the price reply
Undated(m) ==
    IF "updated" \in DOMAIN m.text
    THEN [m EXCEPT !.text = [f \in DOMAIN m.text \ {"updated"} |-> m.text[f]]]
    ELSE m

\* C10 amended: a repeated handling sends the same replies as the first,
\* except for the wall-clock time a price reply shows; with the same
\* wall-clock reading the replies are identical.
C10_IdempotentUpToClock ==
    Repeated =>
        /\ [k \in 1..Len(outbox) |-> Undated(outbox[k])]
             = [k \in 1..Len(prev.outbox) |-> Undated(prev.outbox[k])]
        /\ (prev.stamp = stamp => prev.outbox = outbox)

C10_Witness ==
    /\ Repeated
    /\ update.name = "price"
    /\ stamp = prev.stamp
    /\ stamp >= 0
    /\ Len(outbox) = 1
    /\ outbox[1].text.id = "price"

====
